---- MODULE Spec2Model ----
(***************************************************************************)
(* Model of the financial-evaluation frontend: the fetch wrapper apiFetch  *)
(* and its facade (api/client.js), the upload form's validation and        *)
(* submit handler (components/UploadForm.jsx) and the useApi hook          *)
(* (hooks/useApi.js).  Each of the three parts has its own specification:  *)
(* FetchSpec (FetchLiveSpec with the timer's fairness), FormSpec, ApiSpec. *)
(***************************************************************************)
EXTENDS Integers, Sequences, FiniteSets, TLC

VARIABLES
    \* ---- api/client.js: one facade call at a time
    fpc,         \* position of the call: "idle", "fetching", "reading", "done", "raised"
    op,          \* the facade operation being served
    netCalls,    \* the fetch() calls the operation has issued
    timerArmed,  \* the setTimeout of apiFetch is pending
    aborted,     \* controller.signal.aborted
    response,    \* the Response fetch resolved with, or NoResponse
    result,      \* the value the facade's promise resolved with, or NoResult
    \* ---- components/UploadForm.jsx
    envMaxMb,    \* process.env.REACT_APP_MAX_UPLOAD_MB as Number(...) sees it
    file,        \* fileInputRef.current.files[0], or NoFile
    title,       \* state title (sequence of characters)
    notes,       \* state notes (sequence of characters)
    formError,   \* state error of the form
    lastSubmit,  \* what handleSubmit did, while it is the latest form event
    \* ---- hooks/useApi.js
    loading,     \* state loading
    error,       \* state error
    data,        \* state data
    inflight,    \* invocations of run awaiting asyncFn
    started,     \* how many invocations of run were made
    last,        \* the latest event of the hook and what it returned
    clean        \* no overlap and no reset since the hook last had nothing in flight

fetchVars == <<fpc, op, netCalls, timerArmed, aborted, response, result>>
formVars  == <<envMaxMb, file, title, notes, formError, lastSubmit>>
apiVars   == <<loading, error, data, inflight, started, last, clean>>
vars      == <<fetchVars, formVars, apiVars>>

(***************************************************************************)
(* JavaScript values, as far as the code inspects them.                    *)
(***************************************************************************)
Undefined == [t |-> "undefined"]
Null      == [t |-> "null"]
Str(s)    == [t |-> "str", s |-> s]
Num(n)    == [t |-> "num", n |-> n]
Bool(b)   == [t |-> "bool", b |-> b]
Obj(f)    == [t |-> "obj", f |-> f]

\* ToBoolean
Truthy(v) ==
    CASE v.t = "undefined" -> FALSE
      [] v.t = "null"      -> FALSE
      [] v.t = "str"       -> v.s # ""
      [] v.t = "num"       -> v.n # 0
      [] v.t = "bool"      -> v.b
      [] v.t = "obj"       -> TRUE

\* v.k for a v that is neither null nor undefined
Get(v, k) == IF v.t = "obj" /\ k \in DOMAIN v.f THEN v.f[k] ELSE Undefined

\* a || b and a && b
Or(a, b)  == IF Truthy(a) THEN a ELSE b
And(a, b) == IF Truthy(a) THEN b ELSE a

\* v?.k
OptGet(v, k) == IF v.t \in {"undefined", "null"} THEN Undefined ELSE Get(v, k)

(***************************************************************************)
(* api/client.js                                                           *)
(***************************************************************************)
NoResponse == [none |-> TRUE]
NoResult   == [none |-> TRUE]
NoOp       == [name |-> "none"]
NoFile     == [none |-> TRUE]
NoSubmit   == [none |-> TRUE]
NoEvent    == [kind |-> "none"]

\* makeError: the details key exists only for a truthy details argument
makeError(status, message, details) ==
    IF Truthy(details)
    THEN [ok |-> FALSE, status |-> status, message |-> message, details |-> details]
    ELSE [ok |-> FALSE, status |-> status, message |-> message]

\* the catch block of the fetch call
classifyRejectionSwapped(err) ==
    IF err.name = "AbortError"
    THEN makeError(0, Str("Network error"), Undefined)
    ELSE makeError(0, Str("Request timed out"), Undefined)

classifyRejection(err) ==
    IF err.name = "AbortError"
    THEN makeError(0, Str("Request timed out"), Undefined)
    ELSE makeError(0, Str("Network error"), Undefined)

\* what fetch rejects with: an abort of the signal gives a DOMException named
\* AbortError, any other transport failure a TypeError
rejectionOf(isAborted) ==
    IF isAborted THEN [name |-> "AbortError"] ELSE [name |-> "TypeError"]

\* headers.get('Content-Type') || '' followed by includes('application/json');
\* a header value is the sequence of its ';'-separated parts, <<>> when absent
includesJson(ctype) == \E i \in 1..Len(ctype) : ctype[i] = "application/json"

Malformed == [t |-> "malformed"]

\* the body readers: response.json() and response.text() reject when the
\* stream fails; json() also rejects on text that is not JSON
readJson(resp) ==
    IF resp.readFails \/ resp.body.json = Malformed
    THEN [threw |-> TRUE, value |-> Undefined]
    ELSE [threw |-> FALSE, value |-> resp.body.json]

readText(resp) ==
    IF resp.readFails
    THEN [threw |-> TRUE, value |-> Undefined]
    ELSE [threw |-> FALSE, value |-> Str(resp.body.text)]

\* the try/catch around the body read: a failed read leaves payload null
parsePayloadPropagates(resp) ==
    IF includesJson(resp.ctype)
    THEN readJson(resp)
    ELSE LET r == readText(resp)
         IN  [threw |-> r.threw, value |-> Obj([message |-> r.value])]

parsePayload(resp) ==
    IF includesJson(resp.ctype)
    THEN LET r == readJson(resp)
         IN  [threw |-> FALSE, value |-> IF r.threw THEN Null ELSE r.value]
    ELSE LET r == readText(resp)
         IN  [threw |-> FALSE,
              value |-> IF r.threw THEN Null ELSE Obj([message |-> r.value])]

\* response.ok
isOk(status) == status >= 200 /\ status <= 299

genericMessage(status) == Str("Request failed with status " \o ToString(status))

\* the message of the !response.ok branch
failureMessageNoOverride(status, payload) ==
    Or(And(payload, Or(Get(payload, "error"), Get(payload, "message"))),
       genericMessage(status))

failureMessage(status, payload) ==
    IF status = 400
    THEN Or(OptGet(payload, "message"), Str("Invalid request. Please check the inputs."))
    ELSE IF status = 415
    THEN Str("Unsupported media type. Please upload a valid PDF file.")
    ELSE Or(And(payload, Or(Get(payload, "error"), Get(payload, "message"))),
            genericMessage(status))

\* the tail of apiFetch, from the parsed payload to the returned value
normalize(status, payload) ==
    IF ~isOk(status)
    THEN makeError(status, failureMessage(status, payload),
                   Or(payload, Undefined))
    ELSE [ok |-> TRUE, status |-> status, data |-> payload]

(***************************************************************************)
(* Strings the code slices, trims or encodes are sequences of characters.  *)
(***************************************************************************)
IsSpace(c) == c \in {" ", "\t"}

\* the first index in lo..hi of a character that is no white space, hi + 1
\* when there is none (found by halving, so that long texts need no deep
\* recursion)
RECURSIVE firstNonSpace(_, _, _)
firstNonSpace(s, lo, hi) ==
    IF lo > hi THEN hi + 1
    ELSE IF lo = hi THEN (IF IsSpace(s[lo]) THEN hi + 1 ELSE lo)
    ELSE LET mid  == (lo + hi) \div 2
             left == firstNonSpace(s, lo, mid)
         IN  IF left <= mid THEN left ELSE firstNonSpace(s, mid + 1, hi)

\* the last index in lo..hi of a character that is no white space, lo - 1
\* when there is none
RECURSIVE lastNonSpace(_, _, _)
lastNonSpace(s, lo, hi) ==
    IF lo > hi THEN lo - 1
    ELSE IF lo = hi THEN (IF IsSpace(s[lo]) THEN lo - 1 ELSE lo)
    ELSE LET mid   == (lo + hi) \div 2
             right == lastNonSpace(s, mid + 1, hi)
         IN  IF right > mid THEN right ELSE lastNonSpace(s, lo, mid)

\* String.prototype.trim
trim(s) == SubSeq(s, firstNonSpace(s, 1, Len(s)), lastNonSpace(s, 1, Len(s)))

\* String.prototype.slice(0, n), n >= 0
slice0(s, n) == SubSeq(s, 1, IF n < Len(s) THEN n ELSE Len(s))

\* encodeURIComponent on one character: unreserved characters stay, the
\* others become their %XX escape
encodeChar(c) ==
    CASE c = " "  -> <<"%", "2", "0">>
      [] c = "\t" -> <<"%", "0", "9">>
      [] c = "/"  -> <<"%", "2", "F">>
      [] OTHER    -> <<c>>

RECURSIVE encodeURIComponent(_)
encodeURIComponent(s) ==
    IF s = <<>> THEN <<>> ELSE encodeChar(Head(s)) \o encodeURIComponent(Tail(s))

Chars(cs) == [t |-> "chars", c |-> cs]

\* String(evaluationId || '')
idText(evaluationId) ==
    IF evaluationId.t = "chars" /\ evaluationId.c # <<>> THEN evaluationId.c ELSE <<>>

\* getEvaluationById, line 115
safeIdNoTrim(evaluationId) == encodeURIComponent(idText(evaluationId))

safeIdOf(evaluationId) == encodeURIComponent(trim(idText(evaluationId)))

(***************************************************************************)
(* The inputs of the fetch model.                                          *)
(***************************************************************************)
MaxIdLen == 2

IdChars == {" ", "a", "/"}

RECURSIVE SeqsUpTo(_, _)
SeqsUpTo(S, n) ==
    IF n = 0 THEN {<<>>}
    ELSE LET shorter == SeqsUpTo(S, n - 1)
         IN  shorter \cup {Append(q, c) : q \in shorter, c \in S}

EvaluationIds == {Undefined, Null} \cup {Chars(q) : q \in SeqsUpTo(IdChars, MaxIdLen)}

Statuses == {200, 201, 400, 404, 415, 500}

ContentTypes ==
    {<<>>, <<"application/json">>, <<"application/json", "charset=utf-8">>,
     <<"text/plain">>}

Bodies ==
    {[text |-> "", json |-> Malformed],
     [text |-> "oops", json |-> Malformed],
     [text |-> "null", json |-> Null],
     [text |-> "0", json |-> Num(0)],
     [text |-> "false", json |-> Bool(FALSE)],
     [text |-> "\"hi\"", json |-> Str("hi")],
     [text |-> "{}", json |-> Obj(<<>>)],
     [text |-> "{\"error\":\"E\"}", json |-> Obj([error |-> Str("E")])],
     [text |-> "{\"message\":\"bad field\"}", json |-> Obj([message |-> Str("bad field")])],
     [text |-> "{\"error\":\"E\",\"message\":\"M\"}",
      json |-> Obj([error |-> Str("E"), message |-> Str("M")])],
     [text |-> "{\"message\":\"\"}", json |-> Obj([message |-> Str("")])],
     [text |-> "{\"error\":\"\",\"message\":\"M\"}",
      json |-> Obj([error |-> Str(""), message |-> Str("M")])]}

Responses ==
    [status : Statuses, ctype : ContentTypes, body : Bodies, readFails : BOOLEAN]

(***************************************************************************)
(* The actions of api/client.js.                                           *)
(***************************************************************************)
FetchInit ==
    /\ fpc = "idle"
    /\ op = NoOp
    /\ netCalls = <<>>
    /\ timerArmed = FALSE
    /\ aborted = FALSE
    /\ response = NoResponse
    /\ result = NoResult
    \* the form and the hook are not part of this specification
    /\ envMaxMb = Undefined
    /\ file = NoFile
    /\ title = <<>>
    /\ notes = <<>>
    /\ formError = ""
    /\ lastSubmit = NoSubmit
    /\ loading = FALSE
    /\ error = Str("")
    /\ data = Null
    /\ inflight = {}
    /\ started = 0
    /\ last = NoEvent
    /\ clean = TRUE

\* apiFetch up to its first await: a fresh controller, the timer, the fetch call
apiFetchStart(method, path) ==
    /\ netCalls' = <<[method |-> method, path |-> path]>>
    /\ timerArmed' = TRUE
    /\ aborted' = FALSE
    /\ response' = NoResponse
    /\ result' = NoResult
    /\ fpc' = "fetching"

CanCall == fpc \in {"idle", "done", "raised"}

CreateEvaluation ==
    /\ CanCall
    /\ op' = [name |-> "create"]
    /\ apiFetchStart("POST", <<"/evaluations">>)
    /\ UNCHANGED <<formVars, apiVars>>

GetEvaluationById ==
    \E evaluationId \in EvaluationIds :
        /\ CanCall
        /\ op' = [name |-> "get", id |-> evaluationId]
        /\ LET safeId == safeIdOf(evaluationId)
           IN  IF safeId = <<>>
               THEN /\ result' = makeError(400, Str("Missing evaluation ID"), Undefined)
                    /\ fpc' = "done"
                    /\ netCalls' = <<>>
                    /\ timerArmed' = FALSE
                    /\ aborted' = FALSE
                    /\ response' = NoResponse
               ELSE apiFetchStart("GET", <<"/evaluations/">> \o safeId)
        /\ UNCHANGED <<formVars, apiVars>>

\* the setTimeout callback: controller.abort()
TimerFires ==
    /\ timerArmed
    /\ aborted' = TRUE
    /\ timerArmed' = FALSE
    /\ UNCHANGED <<fpc, op, netCalls, response, result, formVars, apiVars>>

\* fetch rejects; the catch block classifies, clears the timer and returns
FetchRejects ==
    /\ fpc = "fetching"
    /\ result' = classifyRejection(rejectionOf(aborted))
    /\ timerArmed' = FALSE
    /\ fpc' = "done"
    /\ UNCHANGED <<op, netCalls, aborted, response, formVars, apiVars>>

\* fetch resolves with a response; finally clears the timer, and the body
\* read is started
FetchResolves ==
    \E resp \in Responses :
        /\ fpc = "fetching"
        /\ ~aborted
        /\ response' = resp
        /\ timerArmed' = FALSE
        /\ fpc' = "reading"
        /\ UNCHANGED <<op, netCalls, aborted, result, formVars, apiVars>>

\* the body read settles; the rest of apiFetch runs to its return
BodySettles ==
    /\ fpc = "reading"
    /\ LET p == parsePayload(response)
       IN  IF p.threw
           THEN fpc' = "raised" /\ result' = NoResult
           ELSE fpc' = "done" /\ result' = normalize(response.status, p.value)
    /\ UNCHANGED <<op, netCalls, timerArmed, aborted, response, formVars, apiVars>>

FetchNext ==
    \/ CreateEvaluation
    \/ GetEvaluationById
    \/ TimerFires
    \/ FetchRejects
    \/ FetchResolves
    \/ BodySettles

FetchSpec == FetchInit /\ [][FetchNext]_vars

(***************************************************************************)
(* Claims about api/client.js, checked under FetchSpec.                    *)
(***************************************************************************)
\* the field k of payload p is present with a non-empty (truthy) value
Supplies(p, k) == p.t = "obj" /\ k \in DOMAIN p.f /\ Truthy(p.f[k])

\* the message C1 states for a failing status and payload p
C1_Message(status, p) ==
    IF status = 415
    THEN Str("Unsupported media type. Please upload a valid PDF file.")
    ELSE IF status = 400
    THEN IF Supplies(p, "message") THEN p.f["message"]
         ELSE Str("Invalid request. Please check the inputs.")
    ELSE IF Supplies(p, "error") THEN p.f["error"]
    ELSE IF Supplies(p, "message") THEN p.f["message"]
    ELSE Str("Request failed with status " \o ToString(status))

FailedResponseDone ==
    fpc = "done" /\ response # NoResponse /\ ~isOk(response.status)

\* C1 as stated: every response with a status outside 200..299 and parsed
\* payload p gives a failure with that status, the message of the 415 / 400 /
\* error / message / generic precedence, and p as its details (absent
\* details are taken to carry a null p).
C1_AsStated ==
    FailedResponseDone =>
        LET p == parsePayload(response).value
        IN  /\ result.ok = FALSE
            /\ result.status = response.status
            /\ result.message = C1_Message(response.status, p)
            /\ IF "details" \in DOMAIN result THEN result.details = p ELSE p = Null

\* C1 amended: as C1_AsStated, but the failure carries p as details only when
\* p is truthy; for an empty payload (null after a failed parse, or a JSON
\* null, 0, false or "") the failure has no details at all.
C1_FailureNormalized ==
    FailedResponseDone =>
        LET p == parsePayload(response).value
        IN  /\ result.ok = FALSE
            /\ result.status = response.status
            /\ result.message = C1_Message(response.status, p)
            /\ IF Truthy(p)
               THEN "details" \in DOMAIN result /\ result.details = p
               ELSE "details" \notin DOMAIN result

\* a 415 whose body carries an error text of its own
C1_Witness ==
    /\ FailedResponseDone
    /\ response.status = 415
    /\ Supplies(parsePayload(response).value, "error")
    /\ result.message = Str("Unsupported media type. Please upload a valid PDF file.")

BodyUnreadable(resp) ==
    resp.readFails \/ (includesJson(resp.ctype) /\ resp.body.json = Malformed)

\* C2: apiFetch never raises; whatever the transport does, a finished call
\* has returned exactly one of Success {ok, status, data} and Failure {ok,
\* status, message[, details]}, with status 0 when no response was received
\* and the response's status otherwise, and an unreadable body yields an
\* empty payload.
C2_NeverRaises ==
    /\ fpc # "raised"
    /\ (fpc = "done" /\ netCalls # <<>>) =>
          /\ \/ result.ok = TRUE /\ DOMAIN result = {"ok", "status", "data"}
             \/ /\ result.ok = FALSE
                /\ DOMAIN result \in {{"ok", "status", "message"},
                                      {"ok", "status", "message", "details"}}
                /\ Truthy(result.message)
          /\ response = NoResponse => result.status = 0 /\ result.ok = FALSE
          /\ response # NoResponse =>
                /\ result.status = response.status
                /\ result.ok = isOk(response.status)
                /\ BodyUnreadable(response) =>
                      IF result.ok THEN result.data = Null
                      ELSE "details" \notin DOMAIN result

\* a response whose JSON body does not parse has been normalized
C2_Witness ==
    /\ fpc = "done"
    /\ response # NoResponse
    /\ includesJson(response.ctype)
    /\ response.body.json = Malformed
    /\ ~response.readFails

\* C3: a call that ends without a response returns Failure(0, 'Request timed
\* out') exactly when its own timer fired and aborted the request, and
\* Failure(0, 'Network error') otherwise.
C3_TransportFailure ==
    (fpc = "done" /\ netCalls # <<>> /\ response = NoResponse) =>
        result = [ok |-> FALSE, status |-> 0,
                  message |-> IF aborted THEN Str("Request timed out")
                              ELSE Str("Network error")]

C3_Witness ==
    /\ fpc = "done"
    /\ aborted
    /\ result = [ok |-> FALSE, status |-> 0, message |-> Str("Request timed out")]

\* the text of an identifier: empty for an absent one
C4_Text(id) == IF id.t = "chars" THEN id.c ELSE <<>>

C4_Blank(id) == \A i \in 1..Len(C4_Text(id)) : IsSpace(C4_Text(id)[i])

\* C4: getEvaluationById with an identifier that is absent or empty after
\* trimming returns Failure(400, 'Missing evaluation ID') and issues no
\* network call; with any other identifier it issues exactly one GET to
\* /evaluations/{percent-encoded trimmed id} and returns what apiFetch
\* returns.
C4_GetEvaluationById ==
    op.name = "get" =>
        IF C4_Blank(op.id)
        THEN /\ fpc = "done"
             /\ netCalls = <<>>
             /\ result = [ok |-> FALSE, status |-> 400,
                          message |-> Str("Missing evaluation ID")]
        ELSE /\ netCalls = <<[method |-> "GET",
                              path |-> <<"/evaluations/">>
                                       \o encodeURIComponent(trim(C4_Text(op.id)))]>>
             /\ \A i \in 2..Len(netCalls[1].path) :
                    netCalls[1].path[i] \notin {" ", "\t", "/"}
             /\ fpc = "done" =>
                    result = IF response = NoResponse
                             THEN classifyRejection(rejectionOf(aborted))
                             ELSE normalize(response.status,
                                            parsePayload(response).value)

\* an identifier of blanks only was refused without a network call
C4_Witness ==
    /\ op.name = "get"
    /\ op.id = Chars(<<" ", " ">>)
    /\ fpc = "done"
    /\ netCalls = <<>>

(***************************************************************************)
(* components/UploadForm.jsx, with the configuration readers of            *)
(* api/client.js it calls.                                                 *)
(***************************************************************************)
NaN == [t |-> "nan"]

DefaultMaxMb == 10

\* getMaxUploadMb: Number.isFinite(val) && val > 0 ? val : 10
getMaxUploadMb(val) == IF val.t = "num" /\ val.n > 0 THEN val.n ELSE DefaultMaxMb

getAllowedMimeTypes == {"application/pdf"}

BytesPerMb == 1024 * 1024

TooLargeMessage(maxMb) == "File is too large. Max size is " \o ToString(maxMb) \o " MB."

\* validateFile; sizeMb > maxMb, with sizeMb = size / (1024 * 1024) an exact
\* quotient, is size > maxMb * 1024 * 1024
validateFileInclusive(f, allowedTypes, maxMb) ==
    IF f = NoFile THEN "Please select a file."
    ELSE IF f.type \notin allowedTypes
    THEN "Unsupported file type. Please upload a PDF file."
    ELSE IF f.size >= maxMb * BytesPerMb THEN TooLargeMessage(maxMb)
    ELSE ""

validateFile(f, allowedTypes, maxMb) ==
    IF f = NoFile THEN "Please select a file."
    ELSE IF f.type \notin allowedTypes
    THEN "Unsupported file type. Please upload a PDF file."
    ELSE IF f.size > maxMb * BytesPerMb THEN TooLargeMessage(maxMb)
    ELSE ""

TitleMax == 200
NotesMax == 2000

\* (text || '').toString().slice(0, n).trim()
formTextTrimFirst(text, n) == slice0(trim(text), n)

formText(text, n) == trim(slice0(text, n))

\* handleSubmit: the error it leaves in the form, whether it called onSubmit,
\* and the FormData it passed
handleSubmitNoReturn(f, t, n, maxMb) ==
    [msg      |-> validateFile(f, getAllowedMimeTypes, maxMb),
     error    |-> validateFile(f, getAllowedMimeTypes, maxMb),
     called   |-> TRUE,
     formData |-> [file |-> f, title |-> formText(t, TitleMax),
                   notes |-> formText(n, NotesMax)]]

handleSubmit(f, t, n, maxMb) ==
    LET validationMsg == validateFile(f, getAllowedMimeTypes, maxMb)
    IN  IF validationMsg # ""
        THEN [msg |-> validationMsg, error |-> validationMsg, called |-> FALSE]
        ELSE [msg      |-> validationMsg,
              error    |-> "",
              called   |-> TRUE,
              formData |-> [file |-> f, title |-> formText(t, TitleMax),
                            notes |-> formText(n, NotesMax)]]

(***************************************************************************)
(* The inputs of the form model.                                           *)
(***************************************************************************)
MaxEnvMb == 1
MaxPad == 1

\* values of Number(process.env.REACT_APP_MAX_UPLOAD_MB)
EnvMaxMbValues == {NaN} \cup {Num(n) : n \in -1..MaxEnvMb}

FileTypes == {"application/pdf", "image/png", ""}

\* sizes around the limit in force
FileSizes(maxMb) ==
    {0, maxMb * BytesPerMb - 1, maxMb * BytesPerMb, maxMb * BytesPerMb + 1}

Files(maxMb) == {NoFile} \cup [type : FileTypes, size : FileSizes(maxMb)]

\* lead blanks, then core letters, then trail blanks
Text(lead, core, trail) ==
    [i \in 1..(lead + core + trail) |->
        IF i <= lead \/ i > lead + core THEN " " ELSE "a"]

\* texts around the limit max: short ones, and ones longer than max whose
\* first max characters have no blank at either end, a blank at the start, a
\* blank at the end, or blanks only
Texts(max) ==
    {Text(0, 0, 0), Text(0, 1, 0), Text(0, max + 1, 0)}
    \cup {Text(k, max, 0) : k \in 1..MaxPad}
    \cup {Text(0, max - k, k + 1) : k \in 1..MaxPad}
    \cup {Text(max + k, 0, 0) : k \in 1..MaxPad}

(***************************************************************************)
(* The actions of components/UploadForm.jsx.                               *)
(***************************************************************************)
FormInit ==
    /\ envMaxMb \in EnvMaxMbValues
    /\ file = NoFile
    /\ title = <<>>
    /\ notes = <<>>
    /\ formError = ""
    /\ lastSubmit = NoSubmit
    \* the facade and the hook are not part of this specification
    /\ fpc = "idle"
    /\ op = NoOp
    /\ netCalls = <<>>
    /\ timerArmed = FALSE
    /\ aborted = FALSE
    /\ response = NoResponse
    /\ result = NoResult
    /\ loading = FALSE
    /\ error = Str("")
    /\ data = Null
    /\ inflight = {}
    /\ started = 0
    /\ last = NoEvent
    /\ clean = TRUE

maxMbInForce == getMaxUploadMb(envMaxMb)

\* the file input's onChange: resetError
SelectFile ==
    \E f \in Files(maxMbInForce) :
        /\ file' = f
        /\ formError' = ""
        /\ lastSubmit' = NoSubmit
        /\ UNCHANGED <<envMaxMb, title, notes, fetchVars, apiVars>>

\* the title input's onChange
SetTitle ==
    \E t \in Texts(TitleMax) :
        /\ title' = t
        /\ lastSubmit' = NoSubmit
        /\ UNCHANGED <<envMaxMb, file, notes, formError, fetchVars, apiVars>>

\* the notes textarea's onChange
SetNotes ==
    \E n \in Texts(NotesMax) :
        /\ notes' = n
        /\ lastSubmit' = NoSubmit
        /\ UNCHANGED <<envMaxMb, file, title, formError, fetchVars, apiVars>>

\* the form's onSubmit
Submit ==
    /\ LET out == handleSubmit(file, title, notes, maxMbInForce)
       IN  /\ formError' = out.error
           /\ lastSubmit' = [file |-> file, title |-> title, notes |-> notes,
                             maxMb |-> maxMbInForce, out |-> out]
    /\ UNCHANGED <<envMaxMb, file, title, notes, fetchVars, apiVars>>

FormNext ==
    \/ SelectFile
    \/ SetTitle
    \/ SetNotes
    \/ Submit

FormSpec == FormInit /\ [][FormNext]_vars

(***************************************************************************)
(* Claims about components/UploadForm.jsx, checked under FormSpec.         *)
(***************************************************************************)
Submitted == lastSubmit # NoSubmit

OverLimit(f, maxMb) == f # NoFile /\ f.size > maxMb * 1024 * 1024

\* a file the validation rules reject: absent, of a type outside the allowed
\* set, or over the size limit
FailsValidation(f, maxMb) ==
    \/ f = NoFile
    \/ f.type # "application/pdf"
    \/ OverLimit(f, maxMb)

\* C5: a submit whose file is absent, of a MIME type outside the allowed set
\* or oversized gets a non-empty validation message, which becomes the form
\* error, and onSubmit is not called for it.
C5_InvalidNeverSubmitted ==
    (Submitted /\ FailsValidation(lastSubmit.file, lastSubmit.maxMb)) =>
        /\ lastSubmit.out.msg # ""
        /\ formError = lastSubmit.out.msg
        /\ ~lastSubmit.out.called

\* a file of a type outside the allowed set, within the size limit, was submitted
C5_Witness ==
    /\ Submitted
    /\ lastSubmit.file # NoFile
    /\ lastSubmit.file.type = "image/png"
    /\ ~OverLimit(lastSubmit.file, lastSubmit.maxMb)
    /\ formError = "Unsupported file type. Please upload a PDF file."

MentionsLimit(msg, maxMb) ==
    msg = "File is too large. Max size is " \o ToString(maxMb) \o " MB."

\* C6 as stated: every file over maxMb * 1024 * 1024 bytes, whatever its
\* declared MIME type, gets a message containing maxMb, and a file of exactly
\* that size is not rejected for size.
C6_AsStated ==
    Submitted =>
        /\ OverLimit(lastSubmit.file, lastSubmit.maxMb) =>
               MentionsLimit(lastSubmit.out.msg, lastSubmit.maxMb)
        /\ (lastSubmit.file # NoFile
            /\ lastSubmit.file.size = lastSubmit.maxMb * 1024 * 1024) =>
               ~MentionsLimit(lastSubmit.out.msg, lastSubmit.maxMb)

\* C6 amended: every file of an allowed MIME type over maxMb * 1024 * 1024
\* bytes gets the message containing maxMb (a file of another type gets the
\* unsupported-type message whatever its size); a file of exactly that size
\* is not rejected for size, and passes when its type is allowed.
C6_SizeLimit ==
    (Submitted /\ lastSubmit.file # NoFile) =>
        LET f   == lastSubmit.file
            max == lastSubmit.maxMb
            msg == lastSubmit.out.msg
        IN  /\ (f.type = "application/pdf" /\ OverLimit(f, max)) =>
                   MentionsLimit(msg, max)
            /\ f.type # "application/pdf" =>
                   msg = "Unsupported file type. Please upload a PDF file."
            /\ f.size = max * 1024 * 1024 =>
                   /\ ~MentionsLimit(msg, max)
                   /\ f.type = "application/pdf" => msg = ""

\* an oversized PDF was submitted and refused with the limit in the message
C6_Witness ==
    /\ Submitted
    /\ lastSubmit.file # NoFile
    /\ lastSubmit.file.type = "application/pdf"
    /\ OverLimit(lastSubmit.file, lastSubmit.maxMb)
    /\ MentionsLimit(formError, lastSubmit.maxMb)

Transmitted == Submitted /\ lastSubmit.out.called

NoOuterSpace(v) == v = <<>> \/ (~IsSpace(v[1]) /\ ~IsSpace(v[Len(v)]))

\* C7 as stated: a title longer than 200 characters (notes: 2000) is
\* transmitted as a value of exactly 200 (2000) characters without leading or
\* trailing whitespace.
C7_AsStated ==
    Transmitted =>
        /\ Len(lastSubmit.title) > 200 =>
               /\ Len(lastSubmit.out.formData.title) = 200
               /\ NoOuterSpace(lastSubmit.out.formData.title)
        /\ Len(lastSubmit.notes) > 2000 =>
               /\ Len(lastSubmit.out.formData.notes) = 2000
               /\ NoOuterSpace(lastSubmit.out.formData.notes)

\* v is the first n characters of text t, longer than n, without the blanks
\* at their two ends
C7_TrimmedPrefix(t, v, n) ==
    /\ Len(v) <= n
    /\ NoOuterSpace(v)
    /\ IF v = <<>>
       THEN \A j \in 1..n : IsSpace(t[j])
       ELSE \E i \in 0..(n - Len(v)) :
               /\ \A j \in 1..Len(v) : v[j] = t[i + j]
               /\ \A j \in 1..i : IsSpace(t[j])
               /\ \A j \in (i + Len(v) + 1)..n : IsSpace(t[j])
    /\ Len(v) = n <=> (~IsSpace(t[1]) /\ ~IsSpace(t[n]))

\* C7 amended: a title longer than 200 characters (notes: 2000) is
\* transmitted as its first 200 (2000) characters with the whitespace at
\* their two ends removed: the value has no leading or trailing whitespace
\* and at most 200 (2000) characters, exactly that many if and only if
\* neither the first nor the 200th (2000th) character of the text is
\* whitespace.
C7_TruncatedThenTrimmed ==
    Transmitted =>
        /\ Len(lastSubmit.title) > 200 =>
               C7_TrimmedPrefix(lastSubmit.title, lastSubmit.out.formData.title, 200)
        /\ Len(lastSubmit.notes) > 2000 =>
               C7_TrimmedPrefix(lastSubmit.notes, lastSubmit.out.formData.notes, 2000)

\* a title whose 200th character is a blank was transmitted shorter than 200,
\* together with notes of 2001 letters transmitted as 2000
C7_Witness ==
    /\ Transmitted
    /\ Len(lastSubmit.title) > 200
    /\ IsSpace(lastSubmit.title[200])
    /\ Len(lastSubmit.out.formData.title) = 199
    /\ Len(lastSubmit.notes) = 2001
    /\ Len(lastSubmit.out.formData.notes) = 2000

(***************************************************************************)
(* hooks/useApi.js                                                         *)
(***************************************************************************)
\* what the wrapped asyncFn can do: resolve with a value, or reject
Resolved(res) == [kind |-> "resolved", res |-> res]
Rejected      == [kind |-> "rejected"]

\* res.ok === true, for a res that may be undefined
okIsTrue(res) == "ok" \in DOMAIN res /\ res.ok = TRUE

\* (res && res.message) || 'Request failed'
messageOf(res) ==
    IF "message" \in DOMAIN res /\ Truthy(res.message)
    THEN res.message
    ELSE Str("Request failed")

\* run up to its await: setLoading(true); setError('')
runStartKeepsLoading(st) == [st EXCEPT !.error = Str("")]

runStart(st) == [st EXCEPT !.loading = TRUE, !.error = Str("")]

\* run after its await: the try body, the catch block and the finally block.
\* Gives the state left behind, the value run resolves with, and whether run
\* rejected instead.
runSettleNoCatch(st, outcome) ==
    IF outcome.kind = "rejected"
    THEN [st |-> [st EXCEPT !.loading = FALSE], ret |-> Undefined, raised |-> TRUE]
    ELSE IF ~okIsTrue(outcome.res)
    THEN [st |-> [st EXCEPT !.error = messageOf(outcome.res), !.data = Null,
                            !.loading = FALSE],
          ret |-> outcome.res, raised |-> FALSE]
    ELSE [st |-> [st EXCEPT !.data = outcome.res.data, !.loading = FALSE],
          ret |-> outcome.res, raised |-> FALSE]

runSettle(st, outcome) ==
    IF outcome.kind = "rejected"
    THEN [st |-> [st EXCEPT !.error = Str("Unexpected error"), !.data = Null,
                            !.loading = FALSE],
          ret |-> [ok |-> FALSE, message |-> Str("Unexpected error")],
          raised |-> FALSE]
    ELSE IF ~okIsTrue(outcome.res)
    THEN [st |-> [st EXCEPT !.error = messageOf(outcome.res), !.data = Null,
                            !.loading = FALSE],
          ret |-> outcome.res, raised |-> FALSE]
    ELSE [st |-> [st EXCEPT !.data = outcome.res.data, !.loading = FALSE],
          ret |-> outcome.res, raised |-> FALSE]

\* reset
resetState == [loading |-> FALSE, error |-> Str(""), data |-> Null]

\* App passes busy={loading}; UploadForm puts disabled={busy} on the file
\* input, both text fields and the submit button
formDisabled == loading

(***************************************************************************)
(* The inputs of the hook model.                                           *)
(***************************************************************************)
MaxRuns == 3

Payloads == {Obj([id |-> Str("e1")]), Obj([id |-> Str("e2")])}

\* what createEvaluation resolves with, and undefined for the !res test
ApiResults ==
    {[ok |-> TRUE, status |-> 200, data |-> d] : d \in Payloads}
    \cup {[ok |-> FALSE, status |-> 0, message |-> Str("Network error")],
          [ok |-> FALSE, status |-> 400, message |-> Str("bad field")],
          Undefined}

Outcomes == {Resolved(res) : res \in ApiResults} \cup {Rejected}

(***************************************************************************)
(* The actions of hooks/useApi.js.                                         *)
(***************************************************************************)
ApiInit ==
    /\ loading = FALSE
    /\ error = Str("")
    /\ data = Null
    /\ inflight = {}
    /\ started = 0
    /\ last = NoEvent
    /\ clean = TRUE
    \* the facade and the form are not part of this specification
    /\ fpc = "idle"
    /\ op = NoOp
    /\ netCalls = <<>>
    /\ timerArmed = FALSE
    /\ aborted = FALSE
    /\ response = NoResponse
    /\ result = NoResult
    /\ envMaxMb = Undefined
    /\ file = NoFile
    /\ title = <<>>
    /\ notes = <<>>
    /\ formError = ""
    /\ lastSubmit = NoSubmit

hookState == [loading |-> loading, error |-> error, data |-> data]

\* run(...args) is invoked and reaches its await
Run ==
    /\ started < MaxRuns
    /\ LET st == runStart(hookState)
       IN  /\ loading' = st.loading
           /\ error' = st.error
           /\ data' = st.data
    /\ started' = started + 1
    /\ inflight' = inflight \cup {started + 1}
    /\ last' = [kind |-> "run", id |-> started + 1]
    /\ clean' = (inflight = {})
    /\ UNCHANGED <<fetchVars, formVars>>

\* the asyncFn of one pending invocation settles and that invocation of run
\* finishes
Settle ==
    \E id \in inflight, outcome \in Outcomes :
        /\ LET r == runSettle(hookState, outcome)
           IN  /\ loading' = r.st.loading
               /\ error' = r.st.error
               /\ data' = r.st.data
               /\ last' = [kind |-> "settle", id |-> id, outcome |-> outcome,
                           ret |-> r.ret, raised |-> r.raised]
        /\ inflight' = inflight \ {id}
        /\ UNCHANGED <<started, clean, fetchVars, formVars>>

\* reset()
Reset ==
    /\ loading' = resetState.loading
    /\ error' = resetState.error
    /\ data' = resetState.data
    /\ last' = [kind |-> "reset"]
    /\ clean' = (clean /\ inflight = {})
    /\ UNCHANGED <<inflight, started, fetchVars, formVars>>

ApiNext ==
    \/ Run
    \/ Settle
    \/ Reset

ApiSpec == ApiInit /\ [][ApiNext]_vars

(***************************************************************************)
(* Claims about hooks/useApi.js, checked under ApiSpec.                    *)
(***************************************************************************)
JustSettled == last.kind = "settle"

IsSuccess(o) == o.kind = "resolved" /\ "ok" \in DOMAIN o.res /\ o.res.ok = TRUE

IsFailure(o) == o.kind = "resolved" /\ "ok" \in DOMAIN o.res /\ o.res.ok = FALSE

\* C8: right after an invocation of run resolves, whatever other invocations
\* overlap it: on Success data is the payload and error is empty, on Failure
\* error is the failure message and data is absent; so error and data are
\* never both populated.
C8_AsStated ==
    /\ JustSettled =>
          /\ IsSuccess(last.outcome) =>
                 data = last.outcome.res.data /\ error = Str("")
          /\ IsFailure(last.outcome) =>
                 error = last.outcome.res.message /\ data = Null
    /\ ~(Truthy(error) /\ data # Null)

\* C9: run never throws, and loading is false right after an invocation
\* finishes, by Success, by Failure or by an exception of the wrapped
\* operation; in the exception case error is 'Unexpected error', data is
\* cleared and run returns a Failure-shaped value.
C9_LoadingCleared ==
    JustSettled =>
        /\ ~last.raised
        /\ loading = FALSE
        /\ last.outcome.kind = "resolved" => last.ret = last.outcome.res
        /\ last.outcome.kind = "rejected" =>
               /\ error = Str("Unexpected error")
               /\ data = Null
               /\ last.ret.ok = FALSE
               /\ last.ret.message = Str("Unexpected error")

\* the operation of the second invocation threw
C9_Witness ==
    /\ JustSettled
    /\ last.outcome.kind = "rejected"
    /\ last.id = 2
    /\ error = Str("Unexpected error")

\* C10 as stated: whenever a request started through the hook is in flight,
\* loading is true and the form is disabled, after any sequence of run
\* invocations, resolutions and reset calls.
C10_AsStated == inflight # {} => (loading /\ formDisabled)

\* C10 amended: whenever a request is in flight and, since the hook last had
\* none in flight, run was not invoked while another invocation was pending
\* and reset was not called while one was pending, loading is true and the
\* form is disabled.
C10_LoadingWhileInFlight ==
    (inflight # {} /\ clean) => (loading /\ formDisabled)

\* a later, non-overlapping request is in flight after earlier ones finished
C10_Witness ==
    /\ inflight = {2}
    /\ clean
    /\ loading
    /\ data # Null

\* the invocations of run that have finished
settledRuns == (1..started) \ inflight

\* this step finishes invocation i while a later-invoked one has already
\* finished: the two overlapped, and i's response is the stale one
StaleSettles(i) ==
    /\ i \in inflight
    /\ i \notin inflight'
    /\ \E j \in settledRuns : j > i

\* C11: last request wins.  When two invocations of run overlap, the state
\* left once both have resolved is the one committed by the later-invoked
\* request: the response of the earlier invocation, arriving second, does
\* not overwrite data or error.
C11_AsStated ==
    [][(\E i \in inflight : StaleSettles(i)) => (data' = data /\ error' = error)]_vars

(***************************************************************************)
(* Termination of apiFetch.  The timer, once armed, fires unless it is     *)
(* cleared first, and a fetch whose signal was aborted rejects; the        *)
(* transport itself owes nothing: it may never answer, and it may deliver  *)
(* the status and headers and then never finish the body.                  *)
(***************************************************************************)
\* the fetch whose signal the timer aborted rejects
AbortedFetchRejects == aborted /\ FetchRejects

FetchLiveSpec ==
    /\ FetchInit
    /\ [][FetchNext]_vars
    /\ WF_vars(TimerFires)
    /\ WF_vars(AbortedFetchRejects)

Pending == fpc \in {"fetching", "reading"}

\* C12: every call to apiFetch eventually returns a result, whatever the
\* transport does, given that the timer fires and an aborted fetch rejects.
C12_AsStated == Pending ~> (fpc = "done")

\* the part of the call the timer does cover: a call waiting for fetch
\* leaves that wait, with a result or with a response whose body is then read
FetchWaitEnds == (fpc = "fetching") ~> (fpc \in {"reading", "done"})
====
